---- MODULE Spec2Model ----
(***************************************************************************)
(* Helio Workstation: the resource synchronisation service                 *)
(* (ResourceSyncService), which owns a pool of background worker threads   *)
(* (update check, resource request, revisions fetch/sync, project clone)   *)
(* and wires their completion callbacks to the layout's tooltips, the      *)
(* workspace and the resource managers.                                    *)
(*                                                                         *)
(* The thread pool primitives getRunningThreadFor<T> / getNewThreadFor<T>  *)
(* and the worker thread classes live in headers that are not part of the  *)
(* sources at hand; they are modelled from the specification and from the  *)
(* way the service calls them.                                             *)
(***************************************************************************)
EXTENDS Integers, Sequences, FiniteSets, TLC

\* ------------------------------------------------------------------ bounds

\* How many service calls (fetch, sync, clone, cancel) the message thread makes.
MaxCalls == 4

\* How many service calls are made where the workers' progress is followed.
MaxLiveCalls == 3

\* How many times the update-check worker reports a result.
MaxChecks == 2

\* The integer parameters of a delta description run from -MaxIntParam to
\* MaxIntParam.
MaxIntParam == 11

\* How many mouseDrag events the minimap screen receives.
MaxDrags == 3

\* ------------------------------------------------------------------ inputs

ProjectIds == {"p1", "p2"}

\* Array<String> revisionIdsToSync
RevisionLists == {<<"r1">>, <<"r2", "r1">>}

\* Array<String> errors, as a worker reports them
ErrorLists == {<<>>, <<"e1", "e2">>, <<"e2", "e1">>}

NoProject == "-"

\* Resource types a manifest can list, and the ones a resource manager is
\* registered for in the pool the service is constructed with.
ResourceTypes == {"arps", "scales"}
RegisteredTypes == {"scales", "translations"}
NoResource == "-"

\* Content hashes of a manifest's resources.
Hashes == {"h1", "h2"}

\* What a resource request can bring back (a ValueTree).
ResourceData == {"d1"}

\* AppInfoDto, as far as the service reads it: the resources it lists, each
\* resource type at most once, in the order of the array.
ResourceInfos == [type : ResourceTypes, hash : Hashes]
Manifests ==
    {<<>>} \cup {<<r>> : r \in ResourceInfos}
           \cup {m \in ResourceInfos \X ResourceInfos : m[1].type # m[2].type}
NoManifest == <<[type |-> NoResource, hash |-> "-"]>>

\* ------------------------------------------------------------------ state

VARIABLES
    requestThreads,   \* OwnedArray<Thread>: the pool, a sequence of thread records
    modal,            \* the layout's modal component: none / progress / success / fail
    tooltip,          \* the text of the last layout.showTooltip call
    loaded,           \* the workspace: ids of the projects (and stubs) that are loaded
    deleted,          \* the workspace: ids of the projects deleted from the disk
    dbg,              \* the last DBG diagnostic line
    nCalls,           \* how many service calls were made so far
    lastCall,         \* the last service call and its arguments
    lastUpdatesInfo,  \* Config: the manifest saved under lastUpdatesInfo
    managers,         \* resourceManagers: the base resource of each registered manager
    nChecks,          \* how many results the update check has reported
    requested,        \* the requestResource calls of the last update check result
    lastCheckOk,      \* whether the last result the update check reported was a manifest
    received,         \* the manifest the last successful update check received
    callers,          \* two threads calling the service at once: where each is in its call
    overlapped,       \* whether a caller checked while the other was inside its call
    delta,            \* a VCS::Delta: type, description and vcsUuid
    tree,             \* the tree at hand: the last one serialized or received
    treeOf,           \* the delta the tree at hand was serialized from, if it was
    deltaOp,          \* the last operation on the delta
    deltaBefore,      \* the delta as it was when its last deserialize was called
    bounds,           \* ProjectMapScrollerScreen: the component's bounds in its parent
    realBounds,       \* its realBounds
    dragger,          \* its ComponentDragger: where in the component the mouse went down
    scrollerSaw,      \* the xyMoveByUser notifications and the realBounds at the last one
    given,            \* the rectangle the scroller last gave the screen
    nDrags,           \* the mouseDrag events so far
    asked             \* where the mouse of the last mouseDrag asked the component to be

vars == <<requestThreads, modal, tooltip, loaded, deleted, dbg, nCalls, lastCall,
          lastUpdatesInfo, managers, nChecks, requested, lastCheckOk,
          received,
          callers, overlapped, delta, tree, treeOf, deltaOp,
          deltaBefore, bounds, realBounds, dragger, scrollerSaw, given, nDrags,
          asked>>

\* The parts of the state the version control operations work on, and the
\* parts the update check works on.
vcsVars == <<modal, tooltip, loaded, deleted, nCalls, lastCall>>
updVars == <<lastUpdatesInfo, managers, nChecks, requested, lastCheckOk,
             received>>
raceVars == <<callers, overlapped>>
deltaVars == <<delta, tree, treeOf, deltaOp, deltaBefore>>

\* What the service and its workers never touch.
screenVars == <<bounds, realBounds, dragger, scrollerSaw, given, nDrags, asked>>
restVars == <<raceVars, deltaVars, screenVars>>

\* -------------------------------------------------------- the thread pool

RevisionsSyncThread == "RevisionsSyncThread"
ProjectCloneThread == "ProjectCloneThread"
UpdatesCheckThread == "UpdatesCheckThread"
RequestResourceThread == "RequestResourceThread"

\* A freshly constructed worker object of the given class: not started yet.
NewThread(kind) ==
    [kind |-> kind, st |-> "idle", exit |-> FALSE, op |-> "-",
     project |-> NoProject, revs |-> <<>>, resource |-> NoResource,
     result |-> "-", errors |-> <<>>]

\* juce::Thread::isThreadRunning: true from startThread until run() has returned.
isThreadRunning(t) == t.st # "idle"

Indices(pool) == 1..Len(pool)

Min(S) == CHOOSE x \in S : \A y \in S : x <= y

\* The first running thread of the class, as an index into the pool; 0 is nullptr.
getRunningThreadFor(pool, kind) ==
    LET hits == {i \in Indices(pool) : pool[i].kind = kind /\ isThreadRunning(pool[i])}
    IN  IF hits = {} THEN 0 ELSE Min(hits)

\* A thread of the class that is not running: an idle one of the pool is reused,
\* otherwise a new one is added to the pool.
getNewThreadFor(pool, kind) ==
    LET hits == {i \in Indices(pool) : pool[i].kind = kind /\ ~isThreadRunning(pool[i])}
    IN  IF hits = {}
        THEN [pool |-> Append(pool, NewThread(kind)), idx |-> Len(pool) + 1]
        ELSE [pool |-> pool, idx |-> Min(hits)]

\* juce::Thread::startThread: launches the thread unless it is already running,
\* and clears the exit signal of a thread it launches.
startThread(t) ==
    IF isThreadRunning(t) THEN t
    ELSE [t EXCEPT !.st = "busy", !.exit = FALSE, !.result = "-", !.errors = <<>>]

\* juce::Thread::signalThreadShouldExit: only raises the flag the worker polls.
signalThreadShouldExit(t) == [t EXCEPT !.exit = TRUE]

\* RevisionsSyncThread::doFetch
doFetch(t, projectId) ==
    startThread([t EXCEPT !.op = "fetch", !.project = projectId, !.revs = <<>>])

\* RevisionsSyncThread::doSync
doSync(t, projectId, revisionIdsToSync) ==
    startThread([t EXCEPT !.op = "sync", !.project = projectId,
                          !.revs = revisionIdsToSync])

\* ProjectCloneThread::clone
clone(t, projectId) ==
    startThread([t EXCEPT !.op = "clone", !.project = projectId])

\* UpdatesCheckThread::checkForUpdates
checkForUpdates(t) == startThread([t EXCEPT !.op = "check"])

\* RequestResourceThread::requestResource: the thread waits for the delay and
\* then requests the resource.
requestResource(t, resourceType, delay) ==
    startThread([t EXCEPT !.op = "request", !.resource = resourceType])

\* juce::Random::nextInt(maxValue): some n with 0 <= n < maxValue.
nextInt(maxValue) == 0..(maxValue - 1)

\* AppInfoDto::resourceSeemsOutdated: the cached manifest holds no entry for the
\* resource's type with the resource's hash.
resourceSeemsOutdated(cached, newResource) ==
    ~\E j \in 1..Len(cached) :
        cached[j].type = newResource.type /\ cached[j].hash = newResource.hash

\* ---------------------------------------------------------------- VCS::Delta
\* A String is a sequence of characters. A tree is an element with a tag name,
\* string attributes and child elements.

\* static const String undefinedDelta = "undefined"
undefinedDelta == <<"u", "n", "d", "e", "f", "i", "n", "e", "d">>

\* int64 DeltaDescription::defaultNumChanges = -1
defaultNumChanges == -1

Digits == <<"0", "1", "2", "3", "4", "5", "6", "7", "8", "9">>

\* String(int64): the decimal digits, after a minus sign for a negative number.
RECURSIVE NatToString(_)
NatToString(n) ==
    IF n < 10 THEN <<Digits[n + 1]>>
    ELSE Append(NatToString(n \div 10), Digits[(n % 10) + 1])

IntToString(n) == IF n < 0 THEN <<"-">> \o NatToString(0 - n) ELSE NatToString(n)

DigitValue(c) == CHOOSE d \in 0..9 : Digits[d + 1] = c

\* The digits of s from position k on, read into v until a character that is no
\* digit.
RECURSIVE ReadDigits(_, _, _)
ReadDigits(s, k, v) ==
    IF k > Len(s) \/ ~\E d \in 0..9 : Digits[d + 1] = s[k] THEN v
    ELSE ReadDigits(s, k + 1, v * 10 + DigitValue(s[k]))

\* String::getLargeIntValue: an optional minus sign and the digits after it; 0
\* when there are none.
getLargeIntValue(s) ==
    IF Len(s) > 0 /\ s[1] = "-" THEN 0 - ReadDigits(s, 2, 0) ELSE ReadDigits(s, 1, 0)

\* Uuid::toString and Uuid(const String &): the 32 hex digits of the id, here
\* the id's name after an "x".
UuidToString(u) == <<"x", u>>
UuidFromString(s) == IF Len(s) = 2 /\ s[1] = "x" THEN s[2] ELSE "null"

\* DeltaDescription(text, numChanges, parameter)
DeltaDescription(text, numChanges, parameter) ==
    [stringToTranslate |-> text, intParameter |-> numChanges,
     stringParameter |-> parameter]

\* Serialization::VCS: the tag and the attribute names
AttributeNames == {"deltaType", "deltaName", "deltaStringParam", "deltaIntParam",
                   "deltaId"}

Element(tag, attributes, children) ==
    [tag |-> tag, attributes |-> attributes, children |-> children]

\* getStringAttribute(name, defaultValue)
getStringAttribute(element, name, defaultValue) ==
    IF name \in DOMAIN element.attributes THEN element.attributes[name]
    ELSE defaultValue

\* tree.hasTagName(delta) ? &tree : tree.getChildByName(delta); <<>> is nullptr
DeltaRoot(t) ==
    IF t.tag = "delta" THEN <<t>>
    ELSE LET hits == {k \in 1..Len(t.children) : t.children[k].tag = "delta"}
         IN  IF hits = {} THEN <<>> ELSE <<t.children[Min(hits)]>>

\* Delta::serialize with the name and the string parameter under each other's
\* attribute.
serialize_Swapped(d) ==
    Element("delta",
            [a \in AttributeNames |->
                CASE a = "deltaType" -> d.type
                  [] a = "deltaName" -> d.description.stringParameter
                  [] a = "deltaStringParam" -> d.description.stringToTranslate
                  [] a = "deltaIntParam" -> IntToString(d.description.intParameter)
                  [] OTHER -> UuidToString(d.vcsUuid)],
            <<>>)

\* VCS::Delta::serialize: the element named delta with the five attributes.
serialize(d) ==
    Element("delta",
            [a \in AttributeNames |->
                CASE a = "deltaType" -> d.type
                  [] a = "deltaName" -> d.description.stringToTranslate
                  [] a = "deltaStringParam" -> d.description.stringParameter
                  [] a = "deltaIntParam" -> IntToString(d.description.intParameter)
                  [] OTHER -> UuidToString(d.vcsUuid)],
            <<>>)

\* Delta::reset clearing the record.
reset_Clearing(d) ==
    [type |-> <<>>, description |-> DeltaDescription(<<>>, 0, <<>>), vcsUuid |-> "null"]

\* Delta::reset: empty.
reset(d) == d

\* VCS::Delta::deserialize
deserialize(d, t) ==
    LET cleared == reset(d)
        root == DeltaRoot(t)
    IN  IF root = <<>> THEN cleared
        ELSE [type |-> getStringAttribute(root[1], "deltaType", undefinedDelta),
              description |-> DeltaDescription(
                  getStringAttribute(root[1], "deltaName", <<>>),
                  getLargeIntValue(getStringAttribute(root[1], "deltaIntParam",
                                       IntToString(defaultNumChanges))),
                  getStringAttribute(root[1], "deltaStringParam", <<>>)),
              vcsUuid |-> UuidFromString(
                  getStringAttribute(root[1], "deltaId",
                                     UuidToString(cleared.vcsUuid)))]

\* The deltas the version control makes.
Strings == {<<>>, <<"4", "b">>}
Uuids == {"u1", "u2"}
IntParams == {0 - MaxIntParam, defaultNumChanges, 0, 7, MaxIntParam}
Deltas ==
    [type : {<<"a">>, undefinedDelta},
     description : [stringToTranslate : Strings, intParameter : IntParams,
                    stringParameter : Strings],
     vcsUuid : Uuids]

EmptyDelta ==
    [type |-> <<>>, description |-> DeltaDescription(<<>>, defaultNumChanges, <<>>),
     vcsUuid |-> "u1"]
NoDelta == <<>>
NoTree == Element("none", <<>>, <<>>)

\* The trees a delta is asked to read: an element that has some of the five
\* attributes, as it is, under a parent element, or under another tag name.
AttributeValue(a) ==
    CASE a = "deltaType" -> <<"a">>
      [] a = "deltaName" -> <<"4", "b">>
      [] a = "deltaStringParam" -> <<"a">>
      [] a = "deltaIntParam" -> <<"-", "1", "0">>
      [] OTHER -> UuidToString("u2")

InputTrees ==
    LET element(tag, present) ==
            Element(tag, [a \in present |-> AttributeValue(a)], <<>>)
        some == {AttributeNames, {"deltaType", "deltaIntParam"}, {}}
    IN  {element("delta", present) : present \in SUBSET AttributeNames}
          \cup {Element("deltas", <<>>,
                        <<Element("head", <<>>, <<>>), element("delta", present)>>) :
                   present \in some}
          \cup {element("revision", present) : present \in some}
          \cup {Element("deltas", <<>>, <<>>)}

\* A delta is made.
NewDelta(d) ==
    /\ delta' = d
    /\ deltaOp' = "new"
    /\ deltaBefore' = NoDelta
    /\ UNCHANGED <<tree, treeOf>>

\* tree = delta.serialize()
Serialize ==
    /\ tree' = serialize(delta)
    /\ treeOf' = delta
    /\ deltaOp' = "serialize"
    /\ deltaBefore' = NoDelta
    /\ UNCHANGED delta

\* A tree arrives from a file or from the network.
ReceiveTree(t) ==
    /\ tree' = t
    /\ treeOf' = NoDelta
    /\ deltaOp' = "receive"
    /\ deltaBefore' = NoDelta
    /\ UNCHANGED delta

\* delta.deserialize(tree)
Deserialize ==
    /\ tree # NoTree
    /\ delta' = deserialize(delta, tree)
    /\ deltaOp' = "deserialize"
    /\ deltaBefore' = delta
    /\ UNCHANGED <<tree, treeOf>>

\* ------------------------------------------------- ProjectMapScrollerScreen
\* The component's bounds are whole pixels. realBounds is a Rectangle<float>:
\* its numbers are kept in parts of a pixel, Fraction to the pixel.
Fraction == 2

\* The size of the parent component, the scroller, in pixels.
ParentWidth == 6
ParentHeight == 5

\* moveConstrainer->setMinimumSize(4, 4)
MinimumSize == 4

\* moveConstrainer->setMinimumOnscreenAmounts(0xffffff, ...)
MinimumOnscreenAmount == 16777215

Rectangle(x, y, w, h) == [x |-> x, y |-> y, w |-> w, h |-> h]
Point(x, y) == [x |-> x, y |-> y]

NotPressed == [pressed |-> FALSE, mouseDownWithinTarget |-> Point(0, 0)]

Max2(a, b) == IF a > b THEN a ELSE b
Min2(a, b) == IF a < b THEN a ELSE b

\* Rectangle<float>::toType<int>: every number cut to a whole pixel.
toTypeInt(r) ==
    Rectangle(r.x \div Fraction, r.y \div Fraction, r.w \div Fraction, r.h \div Fraction)

\* Point<int>::toFloat
toFloat(p) == Point(p.x * Fraction, p.y * Fraction)

getPosition(b) == Point(b.x, b.y)

\* Rectangle<float>::translate
translate(r, dx, dy) == [r EXCEPT !.x = r.x + dx, !.y = r.y + dy]

\* ComponentBoundsConstrainer::checkBounds for a move: the size is raised to
\* the minimum size, then the top, left, bottom and right limits are applied in
\* that order.
checkBounds(b, limits) ==
    LET w == Max2(MinimumSize, b.w)
        h == Max2(MinimumSize, b.h)
        top == limits.y + Min2(MinimumOnscreenAmount - h, 0)
        left == limits.x + Min2(MinimumOnscreenAmount - w, 0)
        bottom == limits.y + limits.h - Min2(MinimumOnscreenAmount, h)
        right == limits.x + limits.w - Min2(MinimumOnscreenAmount, w)
        y1 == IF b.y < top THEN top ELSE b.y
        x1 == IF b.x < left THEN left ELSE b.x
        y2 == IF y1 > bottom THEN bottom ELSE y1
        x2 == IF x1 > right THEN right ELSE x1
    IN  Rectangle(x2, y2, w, h)

\* ComponentDragger::dragComponent: the component is moved by what the mouse is
\* away from where it went down in the component, and the constrainer has the
\* last word. The mouse position is the event's, in the parent's coordinates.
dragComponent(b, d, e) ==
    LET relative == Point(e.x - b.x, e.y - b.y)
        target == [b EXCEPT !.x = b.x + relative.x - d.mouseDownWithinTarget.x,
                            !.y = b.y + relative.y - d.mouseDownWithinTarget.y]
    IN  checkBounds(target, Rectangle(0, 0, ParentWidth, ParentHeight))

\* ProjectMapScroller::xyMoveByUser: the scroller reads the screen's realBounds.
xyMoveByUser(saw, r) == [moves |-> saw.moves + 1, realBounds |-> r]

\* The rectangles the scroller gives the screen, and the mouse positions.
RealBoundsGiven ==
    {Rectangle(x, y, w, h) : x \in {0, 3}, y \in {1, 2}, w \in {7, 8}, h \in {8}}
MousePositions ==
    {Point(x, y) : x \in {0 - 1, 2, 3, ParentWidth}, y \in {0 - 1, 2, 3, ParentHeight}}

\* ProjectMapScrollerScreen::setRealBounds, called by the scroller before the
\* user drags the screen.
setRealBounds(r) ==
    /\ nDrags = 0
    /\ realBounds' = r
    /\ bounds' = toTypeInt(r)
    /\ given' = r
    /\ UNCHANGED <<dragger, scrollerSaw, nDrags, asked>>

\* ProjectMapScrollerScreen::mouseDown: the mouse goes down inside the component.
mouseDown(e) ==
    /\ e.x >= bounds.x /\ e.x < bounds.x + bounds.w
    /\ e.y >= bounds.y /\ e.y < bounds.y + bounds.h
    /\ dragger' = [pressed |-> TRUE,
                   mouseDownWithinTarget |-> Point(e.x - bounds.x, e.y - bounds.y)]
    /\ UNCHANGED <<bounds, realBounds, scrollerSaw, given, nDrags, asked>>

\* mouseDrag moving realBounds by what the mouse asked for.
mouseDrag_Unconstrained(e) ==
    /\ dragger.pressed
    /\ nDrags < MaxDrags
    /\ LET moved == dragComponent(bounds, dragger, e)
           translated == translate(realBounds,
               (e.x - dragger.mouseDownWithinTarget.x - bounds.x) * Fraction,
               (e.y - dragger.mouseDownWithinTarget.y - bounds.y) * Fraction)
       IN  /\ bounds' = moved
           /\ realBounds' = translated
           /\ scrollerSaw' = xyMoveByUser(scrollerSaw, translated)
    /\ nDrags' = nDrags + 1
    /\ asked' = Point(e.x - dragger.mouseDownWithinTarget.x,
                      e.y - dragger.mouseDownWithinTarget.y)
    /\ UNCHANGED <<dragger, given>>

\* ProjectMapScrollerScreen::mouseDrag
mouseDrag(e) ==
    /\ dragger.pressed
    /\ nDrags < MaxDrags
    /\ LET lastPosition == toFloat(getPosition(bounds))
           moved == dragComponent(bounds, dragger, e)
           moveDelta == Point(toFloat(getPosition(moved)).x - lastPosition.x,
                              toFloat(getPosition(moved)).y - lastPosition.y)
           translated == translate(realBounds, moveDelta.x, moveDelta.y)
       IN  /\ bounds' = moved
           /\ realBounds' = translated
           /\ scrollerSaw' = xyMoveByUser(scrollerSaw, translated)
    /\ nDrags' = nDrags + 1
    /\ asked' = Point(e.x - dragger.mouseDownWithinTarget.x,
                      e.y - dragger.mouseDownWithinTarget.y)
    /\ UNCHANGED <<dragger, given>>

\* ------------------------------------------------------------ the service

\* DBG("Warning: attempt to start a ... thread while another one is running")
Warning(op) ==
    CASE op = "fetchRevisionsInfo" -> "fetch while running"
      [] op = "syncRevisions" -> "sync while running"
      [] OTHER -> "clone while running"

Call(op, projectId, revs, dropped) ==
    [op |-> op, project |-> projectId, revs |-> revs, dropped |-> dropped]

\* ResourceSyncService::prepareUpdatesCheckThread, prepareSyncRevisionsThread,
\* prepareFetchRevisionsThread, prepareProjectCloneThread: each takes a thread
\* that is not running from the pool (the callbacks they install are the
\* operators onSyncDone, onSyncFailed, onCloneDone, onCloneFailed below).
prepareUpdatesCheckThread(pool) == getNewThreadFor(pool, UpdatesCheckThread)
prepareSyncRevisionsThread(pool) == getNewThreadFor(pool, RevisionsSyncThread)
prepareFetchRevisionsThread(pool) == getNewThreadFor(pool, RevisionsSyncThread)
prepareProjectCloneThread(pool) == getNewThreadFor(pool, ProjectCloneThread)

Callers == {1, 2}
IdleCaller == [pc |-> "idle", op |-> "none", project |-> NoProject, revs |-> <<>>,
               thr |-> 0]

\* The constructor starts the update check.
Init ==
    /\ requestThreads =
          LET p == prepareUpdatesCheckThread(<<>>)
          IN  [p.pool EXCEPT ![p.idx] = checkForUpdates(p.pool[p.idx])]
    /\ modal = "none"
    /\ tooltip = "none"
    /\ loaded = ProjectIds
    /\ deleted = {}
    /\ dbg = "none"
    /\ nCalls = 0
    /\ lastCall = Call("none", NoProject, <<>>, FALSE)
    /\ lastUpdatesInfo = <<>>
    /\ managers = [r \in RegisteredTypes |-> "builtin"]
    /\ nChecks = 0
    /\ requested = <<>>
    /\ lastCheckOk = FALSE
    /\ received = [info |-> NoManifest, again |-> FALSE]
    /\ callers = [c \in Callers |-> IdleCaller]
    /\ overlapped = FALSE
    /\ delta = EmptyDelta
    /\ tree = NoTree
    /\ treeOf = NoDelta
    /\ deltaOp = "none"
    /\ deltaBefore = NoDelta
    /\ bounds = Rectangle(0, 0, 0, 0)
    /\ realBounds = Rectangle(0, 0, 0, 0)
    /\ dragger = NotPressed
    /\ scrollerSaw = [moves |-> 0, realBounds |-> Rectangle(0, 0, 0, 0)]
    /\ given = Rectangle(0, 0, 0, 0)
    /\ nDrags = 0
    /\ asked = Point(0, 0)

\* fetchRevisionsInfo handing its request to the thread that is running.
fetchRevisionsInfo_Merging(projectId) ==
    /\ nCalls < MaxCalls
    /\ nCalls' = nCalls + 1
    /\ LET i == getRunningThreadFor(requestThreads, RevisionsSyncThread)
           p == prepareFetchRevisionsThread(requestThreads)
       IN  IF i # 0
           THEN /\ requestThreads' =
                      [requestThreads EXCEPT ![i] = doFetch(requestThreads[i], projectId)]
                /\ dbg' = Warning("fetchRevisionsInfo")
                /\ lastCall' = Call("fetchRevisionsInfo", projectId, <<>>, TRUE)
           ELSE /\ requestThreads' =
                      [p.pool EXCEPT ![p.idx] = doFetch(p.pool[p.idx], projectId)]
                /\ dbg' = dbg
                /\ lastCall' = Call("fetchRevisionsInfo", projectId, <<>>, FALSE)
    /\ UNCHANGED <<modal, tooltip, loaded, deleted, updVars, restVars>>

fetchRevisionsInfo(projectId) ==
    /\ nCalls < MaxCalls
    /\ nCalls' = nCalls + 1
    /\ IF getRunningThreadFor(requestThreads, RevisionsSyncThread) # 0
       THEN /\ dbg' = Warning("fetchRevisionsInfo")
            /\ lastCall' = Call("fetchRevisionsInfo", projectId, <<>>, TRUE)
            /\ UNCHANGED <<requestThreads, modal, tooltip, loaded, deleted, updVars, restVars>>
       ELSE LET p == prepareFetchRevisionsThread(requestThreads)
            IN  /\ requestThreads' =
                      [p.pool EXCEPT ![p.idx] = doFetch(p.pool[p.idx], projectId)]
                /\ lastCall' = Call("fetchRevisionsInfo", projectId, <<>>, FALSE)
                /\ UNCHANGED <<modal, tooltip, loaded, deleted, dbg, updVars, restVars>>

\* syncRevisions looking only for a running thread that a sync started.
syncRevisions_OwnSlot(projectId, revisionIdsToSync) ==
    /\ nCalls < MaxCalls
    /\ nCalls' = nCalls + 1
    /\ IF \E i \in Indices(requestThreads) :
             /\ requestThreads[i].kind = RevisionsSyncThread
             /\ isThreadRunning(requestThreads[i])
             /\ requestThreads[i].op = "sync"
       THEN /\ dbg' = Warning("syncRevisions")
            /\ lastCall' = Call("syncRevisions", projectId, revisionIdsToSync, TRUE)
            /\ UNCHANGED <<requestThreads, modal, tooltip, loaded, deleted, updVars, restVars>>
       ELSE LET p == prepareSyncRevisionsThread(requestThreads)
            IN  /\ requestThreads' =
                      [p.pool EXCEPT
                          ![p.idx] = doSync(p.pool[p.idx], projectId, revisionIdsToSync)]
                /\ lastCall' = Call("syncRevisions", projectId, revisionIdsToSync, FALSE)
                /\ UNCHANGED <<modal, tooltip, loaded, deleted, dbg, updVars, restVars>>

\* syncRevisions without its return: the thread is prepared and started although
\* another one is running.
syncRevisions_NoReturn(projectId, revisionIdsToSync) ==
    /\ nCalls < MaxCalls
    /\ nCalls' = nCalls + 1
    /\ LET p == prepareSyncRevisionsThread(requestThreads)
       IN  requestThreads' =
              [p.pool EXCEPT
                  ![p.idx] = doSync(p.pool[p.idx], projectId, revisionIdsToSync)]
    /\ lastCall' = Call("syncRevisions", projectId, revisionIdsToSync,
                        getRunningThreadFor(requestThreads, RevisionsSyncThread) # 0)
    /\ dbg' = (IF getRunningThreadFor(requestThreads, RevisionsSyncThread) # 0
               THEN Warning("syncRevisions") ELSE dbg)
    /\ UNCHANGED <<modal, tooltip, loaded, deleted, updVars, restVars>>

syncRevisions(projectId, revisionIdsToSync) ==
    /\ nCalls < MaxCalls
    /\ nCalls' = nCalls + 1
    /\ IF getRunningThreadFor(requestThreads, RevisionsSyncThread) # 0
       THEN /\ dbg' = Warning("syncRevisions")
            /\ lastCall' = Call("syncRevisions", projectId, revisionIdsToSync, TRUE)
            /\ UNCHANGED <<requestThreads, modal, tooltip, loaded, deleted, updVars, restVars>>
       ELSE LET p == prepareSyncRevisionsThread(requestThreads)
            IN  /\ requestThreads' =
                      [p.pool EXCEPT
                          ![p.idx] = doSync(p.pool[p.idx], projectId, revisionIdsToSync)]
                /\ lastCall' = Call("syncRevisions", projectId, revisionIdsToSync, FALSE)
                /\ UNCHANGED <<modal, tooltip, loaded, deleted, dbg, updVars, restVars>>

\* cancelSyncRevisions signalling the running thread only when a sync started it.
cancelSyncRevisions_SyncOnly ==
    /\ nCalls < MaxCalls
    /\ nCalls' = nCalls + 1
    /\ lastCall' = Call("cancelSyncRevisions", NoProject, <<>>, FALSE)
    /\ LET i == getRunningThreadFor(requestThreads, RevisionsSyncThread)
       IN  requestThreads' =
              IF i # 0 /\ requestThreads[i].op = "sync"
              THEN [requestThreads EXCEPT ![i] = signalThreadShouldExit(requestThreads[i])]
              ELSE requestThreads
    /\ UNCHANGED <<modal, tooltip, loaded, deleted, dbg, updVars, restVars>>

\* cancelSyncRevisions stopping the thread itself instead of signalling it.
cancelSyncRevisions_Stops ==
    /\ nCalls < MaxCalls
    /\ nCalls' = nCalls + 1
    /\ lastCall' = Call("cancelSyncRevisions", NoProject, <<>>, FALSE)
    /\ LET i == getRunningThreadFor(requestThreads, RevisionsSyncThread)
       IN  requestThreads' =
              IF i # 0
              THEN [requestThreads EXCEPT ![i] = [@ EXCEPT !.st = "idle", !.exit = TRUE]]
              ELSE requestThreads
    /\ UNCHANGED <<modal, tooltip, loaded, deleted, dbg, updVars, restVars>>

cancelSyncRevisions ==
    /\ nCalls < MaxCalls
    /\ nCalls' = nCalls + 1
    /\ lastCall' = Call("cancelSyncRevisions", NoProject, <<>>, FALSE)
    /\ LET i == getRunningThreadFor(requestThreads, RevisionsSyncThread)
       IN  requestThreads' =
              IF i # 0
              THEN [requestThreads EXCEPT ![i] = signalThreadShouldExit(requestThreads[i])]
              ELSE requestThreads
    /\ UNCHANGED <<modal, tooltip, loaded, deleted, dbg, updVars, restVars>>

\* cloneProject showing its progress tooltip before it looks for a running thread.
cloneProject_TooltipFirst(projectId) ==
    /\ nCalls < MaxCalls
    /\ nCalls' = nCalls + 1
    /\ modal' = "progress"
    /\ IF getRunningThreadFor(requestThreads, ProjectCloneThread) # 0
       THEN /\ dbg' = Warning("cloneProject")
            /\ lastCall' = Call("cloneProject", projectId, <<>>, TRUE)
            /\ UNCHANGED <<requestThreads, tooltip, loaded, deleted, updVars, restVars>>
       ELSE LET p == prepareProjectCloneThread(requestThreads)
            IN  /\ requestThreads' =
                      [p.pool EXCEPT ![p.idx] = clone(p.pool[p.idx], projectId)]
                /\ lastCall' = Call("cloneProject", projectId, <<>>, FALSE)
                /\ UNCHANGED <<tooltip, loaded, deleted, dbg, updVars, restVars>>

cloneProject(projectId) ==
    /\ nCalls < MaxCalls
    /\ nCalls' = nCalls + 1
    /\ IF getRunningThreadFor(requestThreads, ProjectCloneThread) # 0
       THEN /\ dbg' = Warning("cloneProject")
            /\ lastCall' = Call("cloneProject", projectId, <<>>, TRUE)
            /\ UNCHANGED <<requestThreads, modal, tooltip, loaded, deleted, updVars, restVars>>
       ELSE LET p == prepareProjectCloneThread(requestThreads)
            IN  /\ modal' = "progress"
                /\ requestThreads' =
                      [p.pool EXCEPT ![p.idx] = clone(p.pool[p.idx], projectId)]
                /\ lastCall' = Call("cloneProject", projectId, <<>>, FALSE)
                /\ UNCHANGED <<tooltip, loaded, deleted, dbg, updVars, restVars>>

cancelCloneProject ==
    /\ nCalls < MaxCalls
    /\ nCalls' = nCalls + 1
    /\ lastCall' = Call("cancelCloneProject", NoProject, <<>>, FALSE)
    /\ LET i == getRunningThreadFor(requestThreads, ProjectCloneThread)
       IN  requestThreads' =
              IF i # 0
              THEN [requestThreads EXCEPT ![i] = signalThreadShouldExit(requestThreads[i])]
              ELSE requestThreads
    /\ UNCHANGED <<modal, tooltip, loaded, deleted, dbg, updVars, restVars>>

\* ---------------------------------------------------- completion callbacks

\* thread->onFetchDone: nothing to do.
onFetchDone == UNCHANGED <<modal, tooltip, loaded, deleted>>

\* onSyncDone showing the "done" text whether or not there was anything to sync.
onSyncDone_AlwaysDone(nothingToSync) ==
    /\ tooltip' = "vcs::sync::done"
    /\ modal' = "success"
    /\ UNCHANGED <<loaded, deleted>>

\* thread->onSyncDone
onSyncDone(nothingToSync) ==
    /\ tooltip' = (IF nothingToSync THEN "vcs::sync::uptodate" ELSE "vcs::sync::done")
    /\ modal' = "success"
    /\ UNCHANGED <<loaded, deleted>>

\* onSyncFailed showing the last error of the list.
onSyncFailed_Last(errors) ==
    /\ tooltip' = (IF Len(errors) > 0 THEN errors[Len(errors)] ELSE tooltip)
    /\ modal' = "fail"
    /\ UNCHANGED <<loaded, deleted>>

\* thread->onSyncFailed
onSyncFailed(errors) ==
    /\ tooltip' = (IF Len(errors) > 0 THEN Head(errors) ELSE tooltip)
    /\ modal' = "fail"
    /\ UNCHANGED <<loaded, deleted>>

\* thread->onCloneDone
onCloneDone ==
    /\ modal' = "success"
    /\ UNCHANGED <<tooltip, loaded, deleted>>

\* Workspace::unloadProject(id, deletePermanently, ...): the project with the id
\* is unloaded and, when asked for, deleted locally.
unloadProject(projectId, deletePermanently) ==
    /\ loaded' = loaded \ {projectId}
    /\ deleted' = (IF deletePermanently /\ projectId \in loaded
                   THEN deleted \cup {projectId} ELSE deleted)

\* onCloneFailed leaving the project stub in the workspace.
onCloneFailed_KeepsStub(errors, projectId) ==
    /\ tooltip' = (IF Len(errors) > 0 THEN Head(errors) ELSE tooltip)
    /\ modal' = "fail"
    /\ UNCHANGED <<loaded, deleted>>

\* thread->onCloneFailed
onCloneFailed(errors, projectId) ==
    /\ tooltip' = (IF Len(errors) > 0 THEN Head(errors) ELSE tooltip)
    /\ modal' = "fail"
    /\ unloadProject(projectId, TRUE)

\* ------------------------------------------------------------- update check

\* prepareResourceRequestThread handing out the request thread that is running,
\* when there is one.
prepareResourceRequestThread_SingleFlight(pool) ==
    IF getRunningThreadFor(pool, RequestResourceThread) # 0
    THEN [pool |-> pool, idx |-> getRunningThreadFor(pool, RequestResourceThread)]
    ELSE getNewThreadFor(pool, RequestResourceThread)

\* ResourceSyncService::prepareResourceRequestThread (its callback is the
\* operator onRequestResourceOk below).
prepareResourceRequestThread(pool) == getNewThreadFor(pool, RequestResourceThread)

\* The delay drawn from twice the range.
RandomDelays_Wider == {n * 1000 : n \in nextInt(10)}

\* const auto delay = r.nextInt(5) * 1000
RandomDelays == {n * 1000 : n \in nextInt(5)}

\* The loop of onUpdatesCheckOk over info.getResources(), from the k-th resource
\* on: every resource that seems outdated gets a request thread of its own,
\* started with the delay drawn for it. Yields the pool after the loop and the
\* requestResource calls made, in order.
RECURSIVE requestOutdated(_, _, _, _, _, _)
requestOutdated(pool, calls, cached, info, delays, k) ==
    IF k > Len(info) THEN [pool |-> pool, calls |-> calls]
    ELSE IF resourceSeemsOutdated(cached, info[k])
         THEN LET p == prepareResourceRequestThread(pool)
              IN  requestOutdated(
                      [p.pool EXCEPT ![p.idx] =
                          requestResource(p.pool[p.idx], info[k].type, delays[k])],
                      Append(calls, [type |-> info[k].type, delay |-> delays[k]]),
                      cached, info, delays, k + 1)
         ELSE requestOutdated(pool, calls, cached, info, delays, k + 1)

\* The positions of info.getResources() for which the loop draws a delay.
DelayDraws(cached, info) ==
    {k \in 1..Len(info) : resourceSeemsOutdated(cached, info[k])}

\* onUpdatesCheckOk saving the new manifest only when nothing was outdated.
onUpdatesCheckOk_SaveWhenUpToDate(info, delays) ==
    LET done == requestOutdated(requestThreads, <<>>, lastUpdatesInfo, info, delays, 1)
    IN  /\ requestThreads' = done.pool
        /\ requested' = done.calls
        /\ dbg' = (IF done.calls = <<>> THEN "All resources are up to date" ELSE dbg)
        /\ lastUpdatesInfo' = (IF done.calls = <<>> THEN info ELSE lastUpdatesInfo)
        /\ UNCHANGED managers

\* onUpdatesCheckOk saving the new manifest before it loads the cached one.
onUpdatesCheckOk_SaveFirst(info, delays) ==
    LET done == requestOutdated(requestThreads, <<>>, info, info, delays, 1)
    IN  /\ requestThreads' = done.pool
        /\ requested' = done.calls
        /\ dbg' = (IF done.calls = <<>> THEN "All resources are up to date" ELSE dbg)
        /\ lastUpdatesInfo' = info
        /\ UNCHANGED managers

\* thread->onUpdatesCheckOk: load the cached manifest, request what is outdated,
\* save the new manifest.
onUpdatesCheckOk(info, delays) ==
    LET done == requestOutdated(requestThreads, <<>>, lastUpdatesInfo, info, delays, 1)
    IN  /\ requestThreads' = done.pool
        /\ requested' = done.calls
        /\ dbg' = (IF done.calls = <<>> THEN "All resources are up to date" ELSE dbg)
        /\ lastUpdatesInfo' = info
        /\ UNCHANGED managers

\* thread->onUpdatesCheckFailed
onUpdatesCheckFailed(errors) ==
    /\ dbg' = "onUpdatesCheckFailed"
    /\ requested' = <<>>
    /\ UNCHANGED <<requestThreads, lastUpdatesInfo, managers>>

\* onRequestResourceOk handing the resource to every manager.
onRequestResourceOk_All(resourceId, resource) ==
    managers' = [r \in DOMAIN managers |-> resource]

\* thread->onRequestResourceOk
onRequestResourceOk(resourceId, resource) ==
    managers' = IF resourceId \in DOMAIN managers
                THEN [managers EXCEPT ![resourceId] = resource]
                ELSE managers

\* -------------------------------------------------------------- the workers

\* UpdatesCheckThread::run: the periodic check received a manifest.
UpdatesCheckOk(info, delays) ==
    /\ nChecks < MaxChecks
    /\ getRunningThreadFor(requestThreads, UpdatesCheckThread) # 0
    /\ onUpdatesCheckOk(info, delays)
    /\ nChecks' = nChecks + 1
    /\ lastCheckOk' = TRUE
    /\ received' = [info |-> info, again |-> info = received.info]
    /\ UNCHANGED <<vcsVars, restVars>>

\* UpdatesCheckThread::run: the periodic check failed.
UpdatesCheckFailed(errors) ==
    /\ nChecks < MaxChecks
    /\ getRunningThreadFor(requestThreads, UpdatesCheckThread) # 0
    /\ onUpdatesCheckFailed(errors)
    /\ nChecks' = nChecks + 1
    /\ lastCheckOk' = FALSE
    /\ UNCHANGED received
    /\ UNCHANGED <<vcsVars, restVars>>

\* RequestResourceThread::run returns: the thread is no longer running.
\* requestResource overwrites the resource type of a thread that is started again.
Returned(t) ==
    [t EXCEPT !.st = "idle", !.resource = NoResource, !.result = "-", !.errors = <<>>]

\* RequestResourceThread::run: the resource arrived; onRequestResourceOk is
\* called and run() returns.
RequestWorkerOk(i, resource) ==
    /\ requestThreads[i].kind = RequestResourceThread
    /\ requestThreads[i].st = "busy"
    /\ requestThreads' = [requestThreads EXCEPT ![i] = Returned(@)]
    /\ onRequestResourceOk(requestThreads[i].resource, resource)
    /\ UNCHANGED <<dbg, vcsVars, lastUpdatesInfo, nChecks, requested, lastCheckOk,
                   received, restVars>>

\* RequestResourceThread::run: the request failed; the service installs no
\* callback for that, and run() returns.
RequestWorkerFailed(i) ==
    /\ requestThreads[i].kind = RequestResourceThread
    /\ requestThreads[i].st = "busy"
    /\ requestThreads' = [requestThreads EXCEPT ![i] = Returned(@)]
    /\ UNCHANGED <<dbg, vcsVars, updVars, restVars>>

Report(i, result, errors) ==
    requestThreads' = [requestThreads EXCEPT
        ![i] = [@ EXCEPT !.st = "reported", !.result = result, !.errors = errors]]

\* RevisionsSyncThread::run for a fetch: the fetch ends and onFetchDone is called.
FetchWorkerDone(i) ==
    /\ requestThreads[i].kind = RevisionsSyncThread
    /\ requestThreads[i].st = "busy" /\ requestThreads[i].op = "fetch"
    /\ Report(i, "fetched", <<>>)
    /\ onFetchDone
    /\ UNCHANGED <<dbg, nCalls, lastCall, updVars, restVars>>

\* RevisionsSyncThread::run for a sync that succeeds.
SyncWorkerDone(i, nothingToSync) ==
    /\ requestThreads[i].kind = RevisionsSyncThread
    /\ requestThreads[i].st = "busy" /\ requestThreads[i].op = "sync"
    /\ Report(i, IF nothingToSync THEN "uptodate" ELSE "done", <<>>)
    /\ onSyncDone(nothingToSync)
    /\ UNCHANGED <<dbg, nCalls, lastCall, updVars, restVars>>

\* RevisionsSyncThread::run for a sync that fails.
SyncWorkerFailed(i, errors) ==
    /\ requestThreads[i].kind = RevisionsSyncThread
    /\ requestThreads[i].st = "busy" /\ requestThreads[i].op = "sync"
    /\ Report(i, "failed", errors)
    /\ onSyncFailed(errors)
    /\ UNCHANGED <<dbg, nCalls, lastCall, updVars, restVars>>

\* ProjectCloneThread::run for a clone that succeeds.
CloneWorkerDone(i) ==
    /\ requestThreads[i].kind = ProjectCloneThread
    /\ requestThreads[i].st = "busy"
    /\ Report(i, "done", <<>>)
    /\ onCloneDone
    /\ UNCHANGED <<dbg, nCalls, lastCall, updVars, restVars>>

\* ProjectCloneThread::run for a clone that fails: the worker reports the id of
\* the project it was cloning.
CloneWorkerFailed(i, errors) ==
    /\ requestThreads[i].kind = ProjectCloneThread
    /\ requestThreads[i].st = "busy"
    /\ Report(i, "failed", errors)
    /\ onCloneFailed(errors, requestThreads[i].project)
    /\ UNCHANGED <<dbg, nCalls, lastCall, updVars, restVars>>

\* run() sees threadShouldExit() and returns without reporting.
WorkerObservesExit(i) ==
    /\ i \in Indices(requestThreads)
    /\ requestThreads[i].kind \in {RevisionsSyncThread, ProjectCloneThread}
    /\ requestThreads[i].st = "busy" /\ requestThreads[i].exit
    /\ requestThreads' = [requestThreads EXCEPT ![i] = [@ EXCEPT !.st = "idle"]]
    /\ UNCHANGED <<modal, tooltip, loaded, deleted, dbg, nCalls, lastCall, updVars, restVars>>

\* run() returns after its callback: the thread is no longer running.
WorkerExits(i) ==
    /\ i \in Indices(requestThreads)
    /\ requestThreads[i].kind \in {RevisionsSyncThread, ProjectCloneThread}
    /\ requestThreads[i].st = "reported"
    /\ requestThreads' = [requestThreads EXCEPT
          ![i] = [@ EXCEPT !.st = "idle", !.result = "-", !.errors = <<>>]]
    /\ UNCHANGED <<modal, tooltip, loaded, deleted, dbg, nCalls, lastCall, updVars, restVars>>

\* ------------------------------------------------------------ specification

\* The calls the message thread makes.
ServiceCall ==
    \/ \E p \in ProjectIds : fetchRevisionsInfo(p)
    \/ \E p \in ProjectIds, r \in RevisionLists : syncRevisions(p, r)
    \/ cancelSyncRevisions
    \/ \E p \in ProjectIds : cloneProject(p)
    \/ cancelCloneProject

\* The steps of the revisions and clone workers.
WorkerStep ==
    \/ \E i \in Indices(requestThreads) : FetchWorkerDone(i)
    \/ \E i \in Indices(requestThreads), b \in BOOLEAN : SyncWorkerDone(i, b)
    \/ \E i \in Indices(requestThreads), e \in ErrorLists : SyncWorkerFailed(i, e)
    \/ \E i \in Indices(requestThreads) : CloneWorkerDone(i)
    \/ \E i \in Indices(requestThreads), e \in ErrorLists : CloneWorkerFailed(i, e)
    \/ \E i \in Indices(requestThreads) : WorkerObservesExit(i)
    \/ \E i \in Indices(requestThreads) : WorkerExits(i)

Next == ServiceCall \/ WorkerStep

Spec == Init /\ [][Next]_vars

\* The pool of the version control operations holds the update check thread,
\* one revisions thread and one clone thread.
VcsPoolSlots == 1..3

\* A worker thread that is running goes on running: one that was signalled
\* sees the signal or hands in its result, and one that has handed in its
\* result returns from run().
NextLive == (nCalls < MaxLiveCalls /\ ServiceCall) \/ WorkerStep

LiveSpec ==
    /\ Init /\ [][NextLive]_vars
    /\ \A i \in VcsPoolSlots :
          WF_vars(WorkerObservesExit(i)) /\ WF_vars(WorkerExits(i))

\* ------------------------------------------- two callers on different threads
\* fetchRevisionsInfo, syncRevisions and cloneProject take no lock. Called from
\* two threads, the steps of the two calls interleave: the check for a running
\* thread, the prepare...Thread call that takes a thread from the pool, and the
\* start of that thread.

KindOf(op) == IF op = "cloneProject" THEN ProjectCloneThread ELSE RevisionsSyncThread

StartOps == {"fetchRevisionsInfo", "syncRevisions", "cloneProject"}

\* The call going on whether or not a thread of the kind is running.
CallerChecks_NoCheck(c, op, projectId, revs) ==
    /\ callers[c].pc = "idle"
    /\ overlapped' = (overlapped \/
                        \E d \in Callers \ {c} : callers[d].pc \in {"checked", "prepared"})
    /\ callers' = [callers EXCEPT ![c] =
          [pc |-> "checked", op |-> op, project |-> projectId, revs |-> revs, thr |-> 0]]
    /\ UNCHANGED <<requestThreads, vcsVars, dbg, updVars, deltaVars, screenVars>>

\* if (auto *thread = this->getRunningThreadFor<...>()) { DBG(...); return; }
CallerChecks(c, op, projectId, revs) ==
    /\ callers[c].pc = "idle"
    /\ overlapped' = (overlapped \/
                        \E d \in Callers \ {c} : callers[d].pc \in {"checked", "prepared"})
    /\ IF getRunningThreadFor(requestThreads, KindOf(op)) # 0
       THEN /\ callers' = [callers EXCEPT ![c] =
                  [pc |-> "dropped", op |-> op, project |-> projectId, revs |-> revs,
                   thr |-> 0]]
            /\ dbg' = Warning(op)
       ELSE /\ callers' = [callers EXCEPT ![c] =
                  [pc |-> "checked", op |-> op, project |-> projectId, revs |-> revs,
                   thr |-> 0]]
            /\ dbg' = dbg
    /\ UNCHANGED <<requestThreads, vcsVars, updVars, deltaVars, screenVars>>

\* cloneProject shows the progress tooltip; then prepare...Thread takes a thread
\* that is not running from the pool.
CallerPrepares(c) ==
    /\ callers[c].pc = "checked"
    /\ LET p == getNewThreadFor(requestThreads, KindOf(callers[c].op))
       IN  /\ requestThreads' = p.pool
           /\ callers' = [callers EXCEPT ![c].pc = "prepared", ![c].thr = p.idx]
    /\ modal' = (IF callers[c].op = "cloneProject" THEN "progress" ELSE modal)
    /\ UNCHANGED <<tooltip, loaded, deleted, nCalls, lastCall, dbg, updVars, overlapped, deltaVars, screenVars>>

\* ->doFetch(...), ->doSync(...), ->clone(...) on the thread that was prepared.
CallerStarts(c) ==
    /\ callers[c].pc = "prepared"
    /\ LET i == callers[c].thr
           t == requestThreads[i]
       IN  requestThreads' = [requestThreads EXCEPT ![i] =
              CASE callers[c].op = "fetchRevisionsInfo" -> doFetch(t, callers[c].project)
                [] callers[c].op = "syncRevisions" ->
                      doSync(t, callers[c].project, callers[c].revs)
                [] OTHER -> clone(t, callers[c].project)]
    /\ callers' = [callers EXCEPT ![c].pc = "done"]
    /\ UNCHANGED <<vcsVars, dbg, updVars, overlapped, deltaVars, screenVars>>

\* A worker of an earlier operation has run to its end: its thread stays in the
\* pool, not running.
RacePools ==
    LET constructed == prepareUpdatesCheckThread(<<>>)
        pool == [constructed.pool EXCEPT ![1] = checkForUpdates(constructed.pool[1])]
    IN  {pool,
         Append(pool, NewThread(RevisionsSyncThread)),
         Append(pool, NewThread(ProjectCloneThread))}

RaceInit ==
    /\ requestThreads \in RacePools
    /\ modal = "none"
    /\ tooltip = "none"
    /\ loaded = ProjectIds
    /\ deleted = {}
    /\ dbg = "none"
    /\ nCalls = 0
    /\ lastCall = Call("none", NoProject, <<>>, FALSE)
    /\ lastUpdatesInfo = <<>>
    /\ managers = [r \in RegisteredTypes |-> "builtin"]
    /\ nChecks = 0
    /\ requested = <<>>
    /\ lastCheckOk = FALSE
    /\ received = [info |-> NoManifest, again |-> FALSE]
    /\ callers = [c \in Callers |-> IdleCaller]
    /\ overlapped = FALSE
    /\ delta = EmptyDelta
    /\ tree = NoTree
    /\ treeOf = NoDelta
    /\ deltaOp = "none"
    /\ deltaBefore = NoDelta
    /\ bounds = Rectangle(0, 0, 0, 0)
    /\ realBounds = Rectangle(0, 0, 0, 0)
    /\ dragger = NotPressed
    /\ scrollerSaw = [moves |-> 0, realBounds |-> Rectangle(0, 0, 0, 0)]
    /\ given = Rectangle(0, 0, 0, 0)
    /\ nDrags = 0
    /\ asked = Point(0, 0)

NextRace ==
    \/ \E c \in Callers, p \in ProjectIds :
          CallerChecks(c, "fetchRevisionsInfo", p, <<>>)
    \/ \E c \in Callers, p \in ProjectIds, r \in RevisionLists :
          CallerChecks(c, "syncRevisions", p, r)
    \/ \E c \in Callers, p \in ProjectIds :
          CallerChecks(c, "cloneProject", p, <<>>)
    \/ \E c \in Callers : CallerPrepares(c)
    \/ \E c \in Callers : CallerStarts(c)

RaceSpec == RaceInit /\ [][NextRace]_vars

\* ------------------------------------------------------- the delta records
serviceVars == <<requestThreads, dbg, vcsVars, updVars, raceVars>>

NextDelta ==
    \/ \E d \in Deltas : NewDelta(d) /\ UNCHANGED <<serviceVars, screenVars>>
    \/ Serialize /\ UNCHANGED <<serviceVars, screenVars>>
    \/ \E t \in InputTrees : ReceiveTree(t) /\ UNCHANGED <<serviceVars, screenVars>>
    \/ Deserialize /\ UNCHANGED <<serviceVars, screenVars>>

DeltaSpec == Init /\ [][NextDelta]_vars

\* -------------------------------------------------- the minimap's screen
NextScreen ==
    \/ \E r \in RealBoundsGiven :
          setRealBounds(r) /\ UNCHANGED <<serviceVars, deltaVars>>
    \/ \E e \in MousePositions : mouseDown(e) /\ UNCHANGED <<serviceVars, deltaVars>>
    \/ \E e \in MousePositions : mouseDrag(e) /\ UNCHANGED <<serviceVars, deltaVars>>

ScreenSpec == Init /\ [][NextScreen]_vars

\* The update check and the resource requests it starts.
NextUpdates ==
    \/ \E info \in Manifests :
          \E delays \in [DelayDraws(lastUpdatesInfo, info) -> RandomDelays] :
             UpdatesCheckOk(info, delays)
    \/ \E e \in ErrorLists : UpdatesCheckFailed(e)
    \/ \E i \in Indices(requestThreads), d \in ResourceData : RequestWorkerOk(i, d)
    \/ \E i \in Indices(requestThreads) : RequestWorkerFailed(i)

UpdatesSpec == Init /\ [][NextUpdates]_vars

\* ------------------------------------------------------------------ claims

Running(kind) ==
    {i \in Indices(requestThreads) :
        requestThreads[i].kind = kind /\ isThreadRunning(requestThreads[i])}

\* This step is a call of the service by the message thread.
IsCall(ops) == nCalls' = nCalls + 1 /\ lastCall'.op \in ops

\* What a thread was started with.
Arguments(t) == <<t.op, t.project, t.revs>>

\* Thread i of the pool runs after this step and did not run before it.
Started(i) ==
    /\ isThreadRunning(requestThreads'[i])
    /\ i \in Indices(requestThreads) => ~isThreadRunning(requestThreads[i])

\* C1: whatever fetchRevisionsInfo, syncRevisions, cloneProject, the two cancel
\* calls and the workers' completions did so far, at most one
\* RevisionsSyncThread and at most one ProjectCloneThread is running.
C1_SingleFlight ==
    /\ Cardinality(Running(RevisionsSyncThread)) <= 1
    /\ Cardinality(Running(ProjectCloneThread)) <= 1

\* A sync worker and a clone worker run, and the last call was dropped.
C1_Witness ==
    /\ Running(RevisionsSyncThread) # {}
    /\ Running(ProjectCloneThread) # {}
    /\ lastCall.dropped
    /\ nCalls >= 3

\* C2: a fetchRevisionsInfo, syncRevisions or cloneProject call made while a
\* worker of its kind is running changes nothing: the pool, its threads and
\* their arguments, the modal component, the tooltip, the workspace, the cached
\* manifest and the resource managers stay as they are.
C2_DuplicateIsNoOp ==
    [][ (\/ /\ IsCall({"fetchRevisionsInfo", "syncRevisions"})
            /\ Running(RevisionsSyncThread) # {}
         \/ /\ IsCall({"cloneProject"})
            /\ Running(ProjectCloneThread) # {})
        => UNCHANGED <<requestThreads, modal, tooltip, loaded, deleted, updVars>> ]_vars

\* A cloneProject call was dropped while the success tooltip of the clone that
\* is still running was on display.
C2_Witness ==
    /\ lastCall.op = "cloneProject"
    /\ lastCall.dropped
    /\ modal = "success"
    /\ Running(ProjectCloneThread) # {}

\* C3: a dropped request is not queued and not merged. A revisions or clone
\* thread only starts in the step of a start call of its kind that found no
\* thread of the kind running, and it starts with that call's arguments; the
\* arguments of a running thread never change. So once the running worker has
\* finished nothing starts, and the dropped arguments are not used, until the
\* caller calls again.
C3_DroppedNotQueued ==
    [][ \A i \in Indices(requestThreads') :
          LET t == requestThreads'[i]
          IN  t.kind \in {RevisionsSyncThread, ProjectCloneThread} =>
                /\ Started(i) =>
                      /\ IsCall(StartOps)
                      /\ KindOf(lastCall'.op) = t.kind
                      /\ Running(t.kind) = {}
                      /\ t.project = lastCall'.project
                      /\ t.revs = lastCall'.revs
                      /\ t.op = (CASE lastCall'.op = "fetchRevisionsInfo" -> "fetch"
                                   [] lastCall'.op = "syncRevisions" -> "sync"
                                   [] OTHER -> "clone")
                /\ (i \in Indices(requestThreads) /\ isThreadRunning(requestThreads[i]))
                      => Arguments(t) = Arguments(requestThreads[i]) ]_vars

\* A syncRevisions call was dropped, the worker that was running has finished,
\* no revisions thread runs, and the finished thread still holds the arguments
\* of its own request, which are not those of the dropped one.
C3_Witness ==
    /\ lastCall.op = "syncRevisions"
    /\ lastCall.dropped
    /\ Running(RevisionsSyncThread) = {}
    /\ \E i \in Indices(requestThreads) :
          /\ requestThreads[i].kind = RevisionsSyncThread
          /\ Arguments(requestThreads[i]) # <<"sync", lastCall.project, lastCall.revs>>

\* This step is a result of the update check; with ok, a manifest.
IsCheck(ok) == nChecks' = nChecks + 1 /\ lastCheckOk' = ok

\* The hash the cached manifest stores for a resource type, if it stores one.
StoredHashes(cached, type) ==
    {cached[j].hash : j \in {j \in 1..Len(cached) : cached[j].type = type}}

\* The resources of the new manifest whose hash is not the stored one.
Differing(cached, info) ==
    {k \in 1..Len(info) : StoredHashes(cached, info[k].type) # {info[k].hash}}

\* C4, as claimed: at most one update-check worker and at most one
\* resource-request worker is running at any time.
C4_OneRequestWorker ==
    /\ Cardinality(Running(UpdatesCheckThread)) <= 1
    /\ Cardinality(Running(RequestResourceThread)) <= 1

\* C4, amended: at most one update-check worker is running at any time, and a
\* successful update check starts one more resource-request worker for every
\* resource of its manifest whose hash differs from the cached one, whatever
\* number of them is already running; nothing else starts one.
C4_OneWorkerPerOutdatedResource ==
    /\ [](Cardinality(Running(UpdatesCheckThread)) <= 1)
    /\ [][ Cardinality(Running(RequestResourceThread))' =
              IF IsCheck(TRUE)
              THEN Cardinality(Running(RequestResourceThread))
                     + Cardinality(Differing(lastUpdatesInfo, lastUpdatesInfo'))
              ELSE IF Cardinality(Running(RequestResourceThread))'
                        < Cardinality(Running(RequestResourceThread))
                   THEN Cardinality(Running(RequestResourceThread)) - 1
                   ELSE Cardinality(Running(RequestResourceThread)) ]_vars

\* Three resource-request workers run at once: two of the last update check
\* and one of the check before it.
C4_Witness ==
    /\ Cardinality(Running(RequestResourceThread)) >= 3
    /\ Len(requested) = 2
    /\ Cardinality(Running(UpdatesCheckThread)) = 1

\* Both callers are through their calls, which were start requests of the kind.
BothCalled(kind) ==
    \A c \in Callers : callers[c].pc \in {"done", "dropped"} /\ KindOf(callers[c].op) = kind

\* C5, as claimed: two start requests of one kind, made from two threads while
\* no worker of the kind is running, start exactly one worker, however the two
\* calls interleave.
C5_ExactlyOneStarted ==
    \A kind \in {RevisionsSyncThread, ProjectCloneThread} :
        BothCalled(kind) => Cardinality(Running(kind)) = 1

\* C5, amended: the check and the start are separate steps that no lock holds
\* together; the two requests start exactly one worker when neither call made
\* its check while the other call was between its check and its start.
C5_ExactlyOneStartedInTurn ==
    \A kind \in {RevisionsSyncThread, ProjectCloneThread} :
        (BothCalled(kind) /\ ~overlapped) => Cardinality(Running(kind)) = 1

\* A syncRevisions and a fetchRevisionsInfo were made one after the other: one
\* started the worker, the other was dropped.
C5_Witness ==
    /\ ~overlapped
    /\ {callers[c].op : c \in Callers} = {"syncRevisions", "fetchRevisionsInfo"}
    /\ {callers[c].pc : c \in Callers} = {"done", "dropped"}
    /\ Cardinality(Running(RevisionsSyncThread)) = 1

\* C6: a successful update check requests a resource of the new manifest
\* exactly when its hash differs from the hash the cached manifest stores for
\* it: one requestResource call and one started request thread for each such
\* resource, none for a resource whose hash is the stored one.
C6_RequestsExactlyTheOutdated ==
    [][ IsCheck(TRUE) =>
          LET info == lastUpdatesInfo'
              differing == Differing(lastUpdatesInfo, info)
          IN  \A type \in ResourceTypes :
                LET n == Cardinality({k \in differing : info[k].type = type})
                IN  /\ Cardinality({k \in 1..Len(requested') :
                                      requested'[k].type = type}) = n
                    /\ Cardinality({i \in Indices(requestThreads') :
                          /\ requestThreads'[i].kind = RequestResourceThread
                          /\ requestThreads'[i].resource = type
                          /\ Started(i)}) = n ]_vars

\* The second update check brought a manifest of two resources, of which one
\* had the cached hash and was not requested and one differed and was.
C6_Witness ==
    /\ nChecks = 2
    /\ lastCheckOk
    /\ Len(lastUpdatesInfo) = 2
    /\ Len(requested) = 1

\* C7: every resource request of an update check is given a delay of 0 to 5
\* seconds, a whole number of seconds in milliseconds, drawn for that request.
C7_DelayWithinFiveSeconds ==
    \A k \in 1..Len(requested) :
        /\ requested[k].delay >= 0
        /\ requested[k].delay <= 5000
        /\ requested[k].delay % 1000 = 0

\* One update check gave its two requests different delays, one of them the
\* longest the draw yields.
C7_Witness ==
    /\ Len(requested) = 2
    /\ requested[1].delay = 4000
    /\ requested[2].delay = 0

\* The worker thread i hands in its result in this step.
Reports(i, kind) ==
    /\ requestThreads[i].kind = kind
    /\ requestThreads[i].st = "busy"
    /\ requestThreads'[i].st = "reported"

C9_FirstErrorShown ==
    [][ \A i \in Indices(requestThreads) :
          ((Reports(i, RevisionsSyncThread) \/ Reports(i, ProjectCloneThread))
             /\ requestThreads'[i].result = "failed") =>
             /\ modal' = "fail"
             /\ tooltip' = IF requestThreads'[i].errors = <<>> THEN tooltip
                            ELSE requestThreads'[i].errors[1] ]_vars

\* A sync has failed with the errors e2, e1 and e2 is shown; after it a clone
\* has failed with no error, and e2 is still what is shown.
C9_Witness ==
    /\ \E i \in Indices(requestThreads) :
          /\ requestThreads[i].kind = RevisionsSyncThread
          /\ requestThreads[i].result = "failed"
          /\ requestThreads[i].errors = <<"e2", "e1">>
    /\ \E i \in Indices(requestThreads) :
          /\ requestThreads[i].kind = ProjectCloneThread
          /\ requestThreads[i].st = "reported"
          /\ requestThreads[i].result = "failed"
          /\ requestThreads[i].errors = <<>>
    /\ tooltip = "e2"
    /\ modal = "fail"

\* Thread i is a revisions or clone worker that runs and has been signalled.
Signalled(i) ==
    /\ i \in Indices(requestThreads)
    /\ requestThreads[i].kind \in {RevisionsSyncThread, ProjectCloneThread}
    /\ isThreadRunning(requestThreads[i])
    /\ requestThreads[i].exit

NotRunning(i) == i \in Indices(requestThreads) /\ ~isThreadRunning(requestThreads[i])

\* What a cancel call of the kind may do: nothing when no thread of the kind
\* is running, else raise the exit signal of the running one, all else as it was.
OnlySignals(kind) ==
    /\ UNCHANGED <<modal, tooltip, loaded, deleted, updVars>>
    /\ IF Running(kind) = {}
       THEN requestThreads' = requestThreads
       ELSE \E i \in Running(kind) :
               requestThreads' = [requestThreads EXCEPT ![i].exit = TRUE]

\* C10: cancellation is cooperative. cancelSyncRevisions and
\* cancelCloneProject only signal the running worker of their kind: they start,
\* remove and stop no thread, and do nothing when none is running; and a worker
\* that was signalled is, some time later, no longer running.
C10_CancelOnlySignals ==
    /\ [][ /\ IsCall({"cancelSyncRevisions"}) => OnlySignals(RevisionsSyncThread)
           /\ IsCall({"cancelCloneProject"}) => OnlySignals(ProjectCloneThread) ]_vars
    /\ \A i \in VcsPoolSlots : Signalled(i) ~> NotRunning(i)

\* cancelSyncRevisions has signalled the worker of a sync, which is still
\* running, and the clone worker beside it was not signalled.
C10_Witness ==
    /\ lastCall.op = "cancelSyncRevisions"
    /\ \E i \in Running(RevisionsSyncThread) :
          requestThreads[i].exit /\ requestThreads[i].st = "busy"
    /\ \E i \in Running(ProjectCloneThread) : ~requestThreads[i].exit

\* The delta has just been deserialized from the tree at hand.
Deserialized == deltaOp = "deserialize"

HasDeltaElement(t) ==
    t.tag = "delta" \/ \E k \in 1..Len(t.children) : t.children[k].tag = "delta"

\* The attribute is missing from the delta element of the tree.
Missing(t, a) == HasDeltaElement(t) /\ a \notin DOMAIN DeltaRoot(t)[1].attributes

\* C17: deserializing from a tree with missing attributes fills in defaults. A
\* missing type becomes "undefined", a missing integer parameter -1, a missing
\* name or string parameter the empty string, and a missing identifier leaves
\* the identifier the record had before the call; a tree that neither is nor
\* contains a delta element leaves every field as it was.
C17_MissingAttributesDefault ==
    Deserialized =>
        /\ Missing(tree, "deltaType") => delta.type = undefinedDelta
        /\ Missing(tree, "deltaIntParam") => delta.description.intParameter = 0 - 1
        /\ Missing(tree, "deltaName") => delta.description.stringToTranslate = <<>>
        /\ Missing(tree, "deltaStringParam") => delta.description.stringParameter = <<>>
        /\ Missing(tree, "deltaId") => delta.vcsUuid = deltaBefore.vcsUuid
        /\ ~HasDeltaElement(tree) => delta = deltaBefore

\* A delta whose fields were all set has read a delta element that has none of
\* the five attributes, found among the children of the tree.
C17_Witness ==
    /\ Deserialized
    /\ tree.tag # "delta"
    /\ \A a \in AttributeNames : Missing(tree, a)
    /\ deltaBefore.type = <<"a">>
    /\ deltaBefore.description.intParameter = 7
    /\ deltaBefore.description.stringToTranslate # <<>>
    /\ deltaBefore.description.stringParameter # <<>>
    /\ deltaBefore.vcsUuid = "u2"

\* C12: the tooltips follow the workers. A cloneProject call that starts a
\* worker shows the modal progress tooltip; when a clone worker reports, the
\* modal component is replaced by one result tooltip, success when it is done
\* and fail when it failed; and when a sync worker reports success, the modal
\* component is replaced by the success tooltip and the text shown is "up to
\* date" exactly when there was nothing to sync, "done" otherwise.
C12_TooltipsFollowWorkers ==
    [][ \A i \in Indices(requestThreads') :
          /\ (Started(i) /\ requestThreads'[i].kind = ProjectCloneThread) =>
                modal' = "progress"
          /\ (i \in Indices(requestThreads) /\ Reports(i, ProjectCloneThread)) =>
                modal' = (IF requestThreads'[i].result = "failed" THEN "fail"
                          ELSE "success")
          /\ (i \in Indices(requestThreads) /\ Reports(i, RevisionsSyncThread)
                 /\ requestThreads'[i].result \in {"uptodate", "done"}) =>
                /\ modal' = "success"
                /\ tooltip' = (IF requestThreads'[i].result = "uptodate"
                               THEN "vcs::sync::uptodate" ELSE "vcs::sync::done") ]_vars

\* A sync that had nothing to do has shown the "up to date" text, and a clone
\* started after it has replaced its progress tooltip by the success tooltip.
C12_Witness ==
    /\ \E i \in Indices(requestThreads) :
          /\ requestThreads[i].kind = RevisionsSyncThread
          /\ requestThreads[i].st = "reported"
          /\ requestThreads[i].result = "uptodate"
    /\ \E i \in Indices(requestThreads) :
          /\ requestThreads[i].kind = ProjectCloneThread
          /\ requestThreads[i].st = "reported"
          /\ requestThreads[i].result = "done"
    /\ tooltip = "vcs::sync::uptodate"
    /\ modal = "success"
    /\ lastCall.op = "cloneProject"

\* The running threads of the kind that the operation started.
RunningOp(kind, op) == {i \in Running(kind) : requestThreads[i].op = op}

\* C13: fetch and sync share one slot, clone has its own. A fetchRevisionsInfo
\* or syncRevisions call is dropped exactly when a RevisionsSyncThread is
\* running, whichever of the two started it, and a cloneProject call exactly
\* when a ProjectCloneThread is running: a running clone worker drops no fetch
\* or sync, a running fetch or sync worker drops no clone.
C13_TwoSlots ==
    [][ /\ (IsCall({"fetchRevisionsInfo"}) /\ RunningOp(RevisionsSyncThread, "sync") # {})
              => lastCall'.dropped
        /\ (IsCall({"syncRevisions"}) /\ RunningOp(RevisionsSyncThread, "fetch") # {})
              => lastCall'.dropped
        /\ IsCall({"fetchRevisionsInfo", "syncRevisions"}) =>
              (lastCall'.dropped <=> Running(RevisionsSyncThread) # {})
        /\ IsCall({"cloneProject"}) =>
              (lastCall'.dropped <=> Running(ProjectCloneThread) # {}) ]_vars

\* A fetch and a clone run side by side, and the sync called last was dropped
\* for the worker that the fetch started.
C13_Witness ==
    /\ lastCall.op = "syncRevisions"
    /\ lastCall.dropped
    /\ RunningOp(RevisionsSyncThread, "fetch") # {}
    /\ RunningOp(RevisionsSyncThread, "sync") = {}
    /\ \E i \in Running(ProjectCloneThread) : requestThreads[i].st = "busy"

\* The operations that start a thread of the kind.
StartOpsOf(kind) ==
    IF kind = RevisionsSyncThread THEN {"fetchRevisionsInfo", "syncRevisions"}
    ELSE {"cloneProject"}

\* The threads of the kind that a cancel has signalled and no call has started
\* again since.
Cancelled(kind) ==
    {i \in Indices(requestThreads) :
        requestThreads[i].kind = kind /\ requestThreads[i].exit}

\* C14: a worker that a cancel has signalled counts as running until it has
\* terminated. While it has not, a call that would start a thread of its kind
\* is dropped and changes no thread; once it has, such a call starts a worker.
\* cancelSyncRevisions signals the running RevisionsSyncThread whether a sync
\* or a fetch started it.
C14_CancelledStillRunning ==
    [][ /\ \A kind \in {RevisionsSyncThread, ProjectCloneThread} :
              (IsCall(StartOpsOf(kind)) /\ Cancelled(kind) # {}) =>
                 IF Cancelled(kind) \cap Running(kind) # {}
                 THEN lastCall'.dropped /\ requestThreads' = requestThreads
                 ELSE /\ ~lastCall'.dropped
                      /\ \E j \in Indices(requestThreads') :
                            Started(j) /\ requestThreads'[j].kind = kind
        /\ IsCall({"cancelSyncRevisions"}) =>
              \A i \in Running(RevisionsSyncThread) : requestThreads'[i].exit ]_vars

\* cancelSyncRevisions has signalled the worker that a fetch started; the
\* worker has not terminated yet, and the fetch called after the cancel was
\* dropped.
C14_Witness ==
    /\ lastCall.op = "fetchRevisionsInfo"
    /\ lastCall.dropped
    /\ \E i \in Cancelled(RevisionsSyncThread) :
          /\ requestThreads[i].st = "busy"
          /\ requestThreads[i].op = "fetch"
    /\ nCalls = 3

\* C15: a successful update check stores the manifest it received as the
\* cached manifest, whether or not it requested a resource and with the
\* requests it started still outstanding; so a successful check that receives
\* the manifest of the successful check before it requests nothing and starts
\* no thread, whatever became of the earlier requests.
C15_ManifestStoredAtOnce ==
    [][ IsCheck(TRUE) =>
          /\ lastUpdatesInfo' = received'.info
          /\ received'.info = received.info =>
                /\ requested' = <<>>
                /\ requestThreads' = requestThreads ]_vars

\* The second update check received the manifest of the first again and
\* requested nothing, while the request that the first check started for
\* "scales" is still outstanding and no resource has arrived.
C15_Witness ==
    /\ nChecks = 2
    /\ lastCheckOk
    /\ received.again
    /\ requested = <<>>
    /\ \E k \in 1..Len(lastUpdatesInfo) : lastUpdatesInfo[k].type = "scales"
    /\ \E i \in Running(RequestResourceThread) : requestThreads[i].resource = "scales"
    /\ managers["scales"] = "builtin"

\* The managers after the one registered under the id, if there is one, was
\* given the resource.
Updated(ms, resourceId, resource) ==
    [r \in DOMAIN ms |-> IF r = resourceId THEN resource ELSE ms[r]]

\* C16: a failed update check leaves the cached manifest, the request threads
\* and the resource managers as they were and requests nothing; and a resource
\* request that succeeds hands the resource to the manager registered under
\* the returned id and to no other, and to none when no manager is registered
\* under the id.
C16_FailedCheckChangesNothing ==
    /\ [][ IsCheck(FALSE) =>
             /\ UNCHANGED <<lastUpdatesInfo, managers, requestThreads>>
             /\ requested' = <<>> ]_vars
    /\ [](\A i \in Running(RequestResourceThread), d \in ResourceData :
            /\ ENABLED (RequestWorkerOk(i, d))
            /\ ~ENABLED (/\ RequestWorkerOk(i, d)
                         /\ managers' # Updated(managers, requestThreads[i].resource, d)))

\* The update check failed after an earlier one had stored a manifest; the
\* resource for "scales" has arrived and only that manager has it, and the
\* request for "arps", which has no manager, is outstanding.
C16_Witness ==
    /\ nChecks = 2
    /\ ~lastCheckOk
    /\ Len(lastUpdatesInfo) = 2
    /\ managers["scales"] = "d1"
    /\ managers["translations"] = "builtin"
    /\ \E i \in Running(RequestResourceThread) : requestThreads[i].resource = "arps"

\* realBounds' origin, seen from the component's position.
Offset(r, b) == Point(r.x - b.x * Fraction, r.y - b.y * Fraction)

\* C18: every mouseDrag moves realBounds by what the component's position
\* changed by once the move constrainer had its say, so realBounds' origin
\* stays where it was relative to the component, before and after every drag
\* and so after any number of them; the size of realBounds stays what it was;
\* and the scroller gets one xyMoveByUser per drag and finds realBounds moved.
C18_RealBoundsFollowsComponent ==
    /\ [][ nDrags' = nDrags + 1 =>
             /\ realBounds'.x - realBounds.x = (bounds'.x - bounds.x) * Fraction
             /\ realBounds'.y - realBounds.y = (bounds'.y - bounds.y) * Fraction
             /\ Offset(realBounds', bounds') = Offset(realBounds, bounds)
             /\ realBounds'.w = realBounds.w /\ realBounds'.h = realBounds.h
             /\ scrollerSaw'.moves = scrollerSaw.moves + 1
             /\ scrollerSaw'.realBounds = realBounds' ]_vars
    /\ [](nDrags > 0 =>
             /\ Offset(realBounds, bounds) = Offset(given, toTypeInt(given))
             /\ realBounds.w = given.w /\ realBounds.h = given.h
             /\ scrollerSaw.moves = nDrags)

\* The screen was given a rectangle three and a half pixels wide that began
\* one and a half pixels from the left. After all the drags the mouse asks for
\* a place left of and below the parent; the constrainer keeps the component
\* inside and has widened it to the minimum size, and realBounds, as wide as
\* it was, begins half a pixel right of the component.
C18_Witness ==
    /\ nDrags = MaxDrags
    /\ given.x = 3 /\ given.w = 7
    /\ asked.x < 0 /\ asked.y > ParentHeight - bounds.h
    /\ bounds.x = 0 /\ bounds.y = ParentHeight - bounds.h
    /\ bounds.w = MinimumSize
    /\ realBounds.x = 1 /\ realBounds.w = 7
    /\ scrollerSaw.realBounds = realBounds

====
